---- MODULE Spec2Model ----
(***************************************************************************)
(* CareerQR: QR decode cascade (qr_scanner.py), resume triage              *)
(* (azure_resume_parser.py), speech synthesis (azure_speaker.py) and the   *)
(* Streamlit UI (app.py).                                                  *)
(*                                                                         *)
(* Python strings are modelled as sequences of atoms (a prefix, a word, a  *)
(* separator): startswith is a test of the first atom, `w in s` a test of  *)
(* membership, lower() a map over the atoms.                               *)
(***************************************************************************)
EXTENDS Integers, Sequences, FiniteSets, TLC

VARIABLES
    \* QRScanner.scan_qr (qr_scanner.py); s_open is what Image.open did in
    \* this call
    s_pc, s_exists, s_ext, s_enhance, s_open, s_i, s_log, s_result,
    \* QRScanner._detect_qr_type (qr_scanner.py)
    t_pc, t_data, t_raises, t_type,
    \* azure_speaker.py: the module-level speech_service and one call of
    \* get_speech_audio_data
    sp_pc, speech_key, speech_region, speech_config, sp_call, sp_ret, sp_contacted,
    \* app.py: st.session_state, the two uploaders, the temporary files, what
    \* the page shows, the calls made in this run, and the locals of the run;
    \* advice_from is the argument of the get_career_advice call whose result
    \* st.session_state.advice holds
    a_pc, ss_advice, advice_from, ss_resume_data, qr_file, resume_file, files, shown,
    calls, loc, client,
    \* azure_ai_advisor.get_career_advice: the calls made of it, each with its
    \* argument, what the chat-completion service did and what came back
    ad_log,
    \* azure_resume_parser.extract_resume_data_full: the analysed document
    \* (paragraphs, key-value pairs), the entity-recognition response, the
    \* position in the function, the dictionary being filled, and what the
    \* function has done so far
    ex_pc, ex_paragraphs, ex_pairs, ex_ner, ex_i, ex_data, ex_prev, ex_did

scanVars == <<s_pc, s_exists, s_ext, s_enhance, s_open, s_i, s_log, s_result>>
typeVars == <<t_pc, t_data, t_raises, t_type>>
speechVars == <<sp_pc, speech_key, speech_region, speech_config, sp_call, sp_ret,
                sp_contacted>>
appVars == <<a_pc, ss_advice, advice_from, ss_resume_data, qr_file, resume_file, files,
             shown, calls, loc, client>>
extractVars == <<ex_pc, ex_paragraphs, ex_pairs, ex_ner, ex_i, ex_data, ex_prev, ex_did>>
adviceVars == <<ad_log>>
vars == <<scanVars, typeVars, speechVars, appVars, extractVars, adviceVars>>

(***************************************************************************)
(* Bounds                                                                  *)
(***************************************************************************)
MaxDataLen == 2
MaxPairs == 2
MaxParas == 2
MaxAdviceCalls == 2

(***************************************************************************)
(* Strings                                                                 *)
(***************************************************************************)
None == <<"<None>">>

RECURSIVE SeqsUpTo(_, _)
SeqsUpTo(S, n) ==
    IF n = 0 THEN {<<>>}
    ELSE LET shorter == SeqsUpTo(S, n - 1)
         IN  shorter \cup {Append(s, a) : s \in {x \in shorter : Len(x) = n - 1}, a \in S}

LowerAtom(a) ==
    CASE a = "Error" -> "error"
      [] a = "ERROR" -> "error"
      [] a = "Skill" -> "skill"
      [] a = "Name"  -> "name"
      [] OTHER       -> a

Lower(s) == [i \in DOMAIN s |-> LowerAtom(s[i])]

StartsWith(s, p) == Len(s) >= 1 /\ s[1] = p

Contains(s, w) == \E i \in DOMAIN s : s[i] = w

Falsy(s) == s = None \/ s = <<>>

IsSpace(a) == a = " "

RECURSIVE LStrip(_)
LStrip(s) == IF s # <<>> /\ IsSpace(Head(s)) THEN LStrip(Tail(s)) ELSE s

RECURSIVE RStrip(_)
RStrip(s) ==
    IF s # <<>> /\ IsSpace(s[Len(s)]) THEN RStrip(SubSeq(s, 1, Len(s) - 1)) ELSE s

Strip(s) == RStrip(LStrip(s))

(***************************************************************************)
(* QRScanner._detect_qr_type                                               *)
(***************************************************************************)
UrlSchemes == {"http://", "https://", "ftp://"}
HostAtoms == {"x", "error"}

\* validators.url: a scheme, an optional user part ending in "@", a host
IsUrl(s) ==
    /\ Len(s) >= 2
    /\ s[1] \in UrlSchemes
    /\ \/ /\ Len(s) = 2
          /\ s[2] \in HostAtoms
       \/ /\ Len(s) = 4
          /\ s[2] \in HostAtoms
          /\ s[3] = "@"
          /\ s[4] \in HostAtoms

detect_qr_type_no_at(data, raises) ==
    IF raises THEN "unknown"
    ELSE IF IsUrl(data) THEN "url"
    ELSE IF StartsWith(data, "mailto:") THEN "email"
    ELSE IF StartsWith(data, "tel:") \/ StartsWith(data, "phone:") THEN "phone"
    ELSE IF StartsWith(data, "wifi:") THEN "wifi"
    ELSE IF StartsWith(data, "begin:vcard") THEN "vcard"
    ELSE IF StartsWith(data, "geo:") THEN "location"
    ELSE "text"

detect_qr_type(data, raises) ==
    IF raises THEN "unknown"
    ELSE IF IsUrl(data) THEN "url"
    ELSE IF StartsWith(data, "mailto:") \/ Contains(data, "@") THEN "email"
    ELSE IF StartsWith(data, "tel:") \/ StartsWith(data, "phone:") THEN "phone"
    ELSE IF StartsWith(data, "wifi:") THEN "wifi"
    ELSE IF StartsWith(data, "begin:vcard") THEN "vcard"
    ELSE IF StartsWith(data, "geo:") THEN "location"
    ELSE "text"

TypeAtoms == {"http://", "ftp://", "mailto:", "tel:", "phone:", "wifi:",
              "begin:vcard", "geo:", "@", "x"}

TypeInputs == SeqsUpTo(TypeAtoms, MaxDataLen)

DetectType ==
    /\ t_pc = "start"
    /\ t_type' = detect_qr_type(t_data, t_raises)
    /\ t_pc' = "done"
    /\ UNCHANGED <<t_data, t_raises>>

(***************************************************************************)
(* QRScanner.scan_qr                                                       *)
(***************************************************************************)
supported_formats == {".png", ".jpg", ".jpeg", ".gif", ".bmp", ".tiff"}

create_error_response(msg) ==
    [success |-> FALSE, error |-> msg, data |-> None, type |-> None]

MsgNotFound == <<"Image", "file", "not", "found">>
MsgUnsupported(ext) == <<"Unsupported", "image", "format:", ext>>
MsgOpenError == <<"Error", "opening", "image:", "exc">>
MsgNoQR == <<"No", "QR", "code", "found", "in", "image">>
MsgUnexpected == <<"Error", "scanning", "QR", "code:", "exc">>

PilApproaches_reordered == <<"original", "grayscale", "enhanced", "high_contrast">>

PilApproaches == <<"original", "enhanced", "grayscale", "high_contrast">>
CvMethods == <<"opencv_original", "opencv_gaussian_blur", "opencv_median_blur",
               "opencv_bilateral_filter", "opencv_adaptive_threshold">>

\* the strings a decoded QR code can hold
QRData == {<<"https://", "x">>, <<"https://", "error">>, <<"x">>, <<>>}

\* what one call of _decode_qr_codes (or the code around it) does
DecodeOutcomes ==
    {[kind |-> "ok", data |-> d] : d \in QRData}
        \cup {[kind |-> "fail", data |-> None], [kind |-> "raise", data |-> None]}

decode_response(d, method) ==
    [success |-> TRUE, data |-> d, type |-> detect_qr_type(d, FALSE),
     processing_method |-> method]

ScanFinish(res) ==
    /\ s_result' = res
    /\ s_pc' = "done"

ScanValidate_extension_first ==
    /\ s_pc = "start"
    /\ UNCHANGED <<s_exists, s_ext, s_enhance, s_log>>
    /\ IF s_ext \notin supported_formats
       THEN ScanFinish(create_error_response(MsgUnsupported(s_ext)))
            /\ UNCHANGED <<s_i, s_open>>
       ELSE IF ~s_exists
       THEN ScanFinish(create_error_response(MsgNotFound)) /\ UNCHANGED <<s_i, s_open>>
       ELSE \E open \in {"ok", "raises"}, build \in {"ok", "raises"} :
              /\ s_open' = open
              /\ IF open = "raises"
                 THEN ScanFinish(create_error_response(MsgOpenError)) /\ UNCHANGED s_i
                 ELSE IF build = "raises"
                 THEN ScanFinish(create_error_response(MsgUnexpected)) /\ UNCHANGED s_i
                 ELSE /\ s_pc' = "pil"
                      /\ s_i' = 1
                      /\ UNCHANGED s_result

\* lines 39-60: the checks before the cascade and the list of variants
ScanValidate ==
    /\ s_pc = "start"
    /\ UNCHANGED <<s_exists, s_ext, s_enhance, s_log>>
    /\ IF ~s_exists
       THEN ScanFinish(create_error_response(MsgNotFound)) /\ UNCHANGED <<s_i, s_open>>
       ELSE IF s_ext \notin supported_formats
       THEN ScanFinish(create_error_response(MsgUnsupported(s_ext)))
            /\ UNCHANGED <<s_i, s_open>>
       ELSE \E open \in {"ok", "raises"}, build \in {"ok", "raises"} :
              /\ s_open' = open
              /\ IF open = "raises"
                 THEN ScanFinish(create_error_response(MsgOpenError)) /\ UNCHANGED s_i
                 ELSE IF build = "raises"
                 THEN ScanFinish(create_error_response(MsgUnexpected)) /\ UNCHANGED s_i
                 ELSE /\ s_pc' = "pil"
                      /\ s_i' = 1
                      /\ UNCHANGED s_result

PilAfterFailureRaising ==
    /\ ScanFinish(create_error_response(MsgUnexpected))
    /\ UNCHANGED s_i

\* lines 62-70, and 72/81-82 after the last variant
PilAfterFailure ==
    IF s_i < Len(PilApproaches)
    THEN /\ s_i' = s_i + 1
         /\ UNCHANGED <<s_pc, s_result>>
    ELSE IF s_enhance
    THEN /\ s_pc' = "cv_prep"
         /\ UNCHANGED <<s_i, s_result>>
    ELSE /\ ScanFinish(create_error_response(MsgNoQR))
         /\ UNCHANGED s_i

PilAttempt ==
    /\ s_pc = "pil"
    /\ UNCHANGED <<s_exists, s_ext, s_enhance, s_open>>
    /\ \E out \in DecodeOutcomes :
         /\ s_log' = Append(s_log, [name |-> PilApproaches[s_i], outcome |-> out.kind,
                                 data |-> out.data])
         /\ IF out.kind = "ok"
            THEN /\ ScanFinish(decode_response(out.data, PilApproaches[s_i]))
                 /\ UNCHANGED s_i
            ELSE PilAfterFailure

\* _scan_with_opencv lines 152-175: reading and preprocessing the image
ScanCvPrepare ==
    /\ s_pc = "cv_prep"
    /\ UNCHANGED <<s_exists, s_ext, s_enhance, s_open, s_log>>
    /\ \E cv \in {"ok", "imread_none", "imread_raises", "gray_raises", "filters_raise"} :
         IF cv = "ok"
         THEN /\ s_pc' = "cv"
              /\ s_i' = 1
              /\ UNCHANGED s_result
         ELSE /\ ScanFinish(create_error_response(MsgNoQR))
              /\ UNCHANGED s_i

\* _scan_with_opencv lines 177-187, then scan_qr lines 75-82
CvAfterFailure ==
    IF s_i < Len(CvMethods)
    THEN /\ s_i' = s_i + 1
         /\ UNCHANGED <<s_pc, s_result>>
    ELSE /\ ScanFinish(create_error_response(MsgNoQR))
         /\ UNCHANGED s_i

CvAttempt ==
    /\ s_pc = "cv"
    /\ UNCHANGED <<s_exists, s_ext, s_enhance, s_open>>
    /\ \E out \in DecodeOutcomes :
         /\ s_log' = Append(s_log, [name |-> CvMethods[s_i], outcome |-> out.kind,
                                 data |-> out.data])
         /\ IF out.kind = "ok"
            THEN /\ ScanFinish(decode_response(out.data, CvMethods[s_i]))
                 /\ UNCHANGED s_i
            ELSE CvAfterFailure


\* no call of scan_qr is in progress
ScanIdle ==
    /\ s_pc = "idle"
    /\ s_exists = FALSE
    /\ s_ext = ".png"
    /\ s_enhance = TRUE
    /\ s_open = "not_called"
    /\ s_i = 1
    /\ s_log = <<>>
    /\ s_result = create_error_response(None)

(***************************************************************************)
(* azure_speaker.py                                                        *)
(***************************************************************************)
NoConfig == "None"
Config == "SpeechConfig"

\* os.getenv: unset, set to the empty string, set
EnvValues == {None, <<>>, <<"value">>}

\* AzureSpeechService._initialize_config; ctor: what building the
\* SpeechConfig does
initialize_config(key, region, ctor) ==
    IF Falsy(key) \/ Falsy(region) THEN NoConfig
    ELSE IF ctor = "ctor_raises" THEN NoConfig
    ELSE Config

Audio == <<"wav">>

SynthOutcomes == {"completed", "canceled", "ssml_raises", "speak_raises"}

synthesize_speech_to_memory_unguarded(config, text, synth) ==
    IF Falsy(text) \/ Strip(text) = <<>>
    THEN [ret |-> None, contacted |-> FALSE]
    ELSE IF synth = "ssml_raises"
    THEN [ret |-> None, contacted |-> FALSE]
    ELSE IF synth = "completed"
    THEN [ret |-> Audio, contacted |-> TRUE]
    ELSE [ret |-> None, contacted |-> TRUE]

\* AzureSpeechService.synthesize_speech_to_memory; synth: what the SDK does
synthesize_speech_to_memory(config, text, synth) ==
    IF config = NoConfig
    THEN [ret |-> None, contacted |-> FALSE]
    ELSE IF Falsy(text) \/ Strip(text) = <<>>
    THEN [ret |-> None, contacted |-> FALSE]
    ELSE IF synth = "ssml_raises"
    THEN [ret |-> None, contacted |-> FALSE]
    ELSE IF synth = "completed"
    THEN [ret |-> Audio, contacted |-> TRUE]
    ELSE [ret |-> None, contacted |-> TRUE]

\* a voice or rate argument: a known name, an unknown name, not a string
NameArgs == {<<"jenny">>, <<"bogus">>, None}

\* get_speech_audio_data: voice.lower() and rate.lower() raise on a
\* non-string, which the wrapper turns into None
get_speech_audio_data(config, text, voice, rate, synth) ==
    IF voice = None \/ rate = None
    THEN [ret |-> None, contacted |-> FALSE]
    ELSE synthesize_speech_to_memory(config, text, synth)

SpeechTexts == {None, <<>>, <<" ">>, <<" ", " ">>, <<"hi">>, <<" ", "hi">>}

\* speech_service = AzureSpeechService() at import
SpeechImport ==
    /\ sp_pc = "import"
    /\ \E ctor \in {"ok", "ctor_raises", "voice_raises"} :
         speech_config' = initialize_config(speech_key, speech_region, ctor)
    /\ sp_pc' = "ready"
    /\ UNCHANGED <<speech_key, speech_region, sp_call, sp_ret, sp_contacted>>

NoCall == [text |-> None, voice |-> None, rate |-> None, synth |-> "none"]

GetSpeechAudioData ==
    /\ sp_pc = "ready"
    /\ \E text \in SpeechTexts, voice \in NameArgs, rate \in NameArgs,
          synth \in SynthOutcomes :
         LET r == get_speech_audio_data(speech_config, text, voice, rate, synth)
         IN  /\ sp_call' = [text |-> text, voice |-> voice, rate |-> rate,
                            synth |-> synth]
             /\ sp_ret' = r.ret
             /\ sp_contacted' = r.contacted
    /\ sp_pc' = "returned"
    /\ UNCHANGED <<speech_key, speech_region, speech_config>>


(***************************************************************************)
(* qr_scanner.scan_qr (the module-level wrapper) and azure_ai_advisor      *)
(***************************************************************************)
\* scan_qr, lines 364-373: the decoded data, or the error text
scan_qr(result) == IF result.success THEN result.data ELSE result.error

MsgClientUnavailable == <<"X", "Azure", "OpenAI", "service", "is", "not", "available.">>
MsgNoResumeData == <<"X", "No", "resume", "data", "provided", "for", "analysis.">>
MsgAdviceError == <<"X", "Error", "generating", "career", "advice:", "exc">>

\* what extract_resume_data_full returned for a file, by the file's content
ResumeData(content) == [of |-> content]
NoneData == [of |-> "<None>"]
AbsentData == [of |-> "<absent>"]
EmptyData == [of |-> "<empty>"]
DataFalsy(d) == d \in {NoneData, EmptyData}

\* the text of the first choice of a chat completion
AdviceTexts == {<<"advice">>, <<"#", "advice", "Error">>, <<"#">>, None}

AdviceOutcomes ==
    {[kind |-> "raises", content |-> None]}
        \cup {[kind |-> "ok", content |-> c] : c \in AdviceTexts}

get_career_advice_unguarded(cl, resume_data, out) ==
    IF out.kind = "raises" THEN MsgAdviceError ELSE out.content

get_career_advice(cl, resume_data, out) ==
    IF ~cl THEN MsgClientUnavailable
    ELSE IF DataFalsy(resume_data) THEN MsgNoResumeData
    ELSE IF out.kind = "raises" THEN MsgAdviceError
    ELSE out.content

\* lines 36-40: client.chat.completions.create is reached only past the two
\* early returns
calls_service(cl, resume_data) == cl /\ ~DataFalsy(resume_data)

\* the arguments of get_career_advice: None, an empty dictionary, the
\* dictionary of an extraction
AdviceInputs == {NoneData, EmptyData, ResumeData("web"), ResumeData("r1")}

\* the service was not called
NoOutcome == [kind |-> "none", content |-> None]

\* one call of get_career_advice
GetCareerAdvice ==
    /\ Len(ad_log) < MaxAdviceCalls
    /\ \E resume_data \in AdviceInputs :
         \E out \in IF calls_service(client, resume_data) THEN AdviceOutcomes
                     ELSE {NoOutcome} :
            ad_log' = Append(ad_log,
                             [data |-> resume_data,
                              out |-> out,
                              contacted |-> calls_service(client, resume_data),
                              ret |-> get_career_advice(client, resume_data, out)])

(***************************************************************************)
(* app.py                                                                  *)
(***************************************************************************)
NoFile == "None"
NoPath == "None"
Absent == <<"<absent>">>

Truthy(text) == text \notin {None, <<>>, Absent}

MarkdownAtoms == {"#", "**", "|"}
NotMarkdown(a) == a \notin MarkdownAtoms

clean_text_for_speech(text) == Strip(SelectSeq(text, NotMarkdown))

FreshLocals(view, event) ==
    [view |-> view, event |-> event, handler |-> "none", hfu_path |-> NoPath,
     pdf_path |-> NoPath, an_path |-> NoPath, an_data |-> NoneData,
     qr_content |-> None, scanned |-> FALSE, scan_result |-> create_error_response(None),
     exc |-> FALSE]

\* a script run starts: nothing shown yet, no call made yet
StartRun(event) ==
    /\ a_pc' = "main"
    /\ shown' = {}
    /\ calls' = <<>>
    /\ loc' = FreshLocals(loc.view, event)

\* the script run ends, normally or with the exception Streamlit reports
EndRun(view, locals, messages) ==
    /\ a_pc' = "idle"
    /\ loc' = [locals EXCEPT !.view = view]
    /\ shown' = shown \cup messages

\* os.path.exists(path) and os.unlink(path)
Unlinked(fs, path) == IF path # NoPath /\ path \in fs THEN fs \ {path} ELSE fs

hfu_cleanup_after_call(fs, path, raised) == IF raised THEN fs ELSE Unlinked(fs, path)

\* handle_file_upload lines 125-127, the finally clause
hfu_cleanup(fs, path, raised) == Unlinked(fs, path)

dl_cleanup_after_analysis(fs, path, raised) == IF raised THEN fs ELSE Unlinked(fs, path)

\* process_qr lines 158-161, the finally clause
dl_cleanup(fs, path, raised) == Unlinked(fs, path)

\* the user changes an uploader or clicks a button of the view on screen
UserEvent ==
    /\ a_pc = "idle"
    /\ UNCHANGED <<ss_advice, advice_from, ss_resume_data, files, client>>
    /\ \/ /\ loc.view = "upload"
          /\ \E f \in {NoFile, "q1"} \ {qr_file} : qr_file' = f
          /\ UNCHANGED resume_file
          /\ StartRun("upload")
       \/ /\ loc.view = "upload"
          /\ \E f \in {NoFile, "r1"} \ {resume_file} : resume_file' = f
          /\ UNCHANGED qr_file
          /\ StartRun("upload")
       \/ /\ loc.view = "results"
          /\ \E ev \in {"speak", "start_over"} : StartRun(ev)
          /\ UNCHANGED <<qr_file, resume_file>>

\* main lines 192-202 with initialize_state
Main ==
    /\ a_pc = "main"
    /\ ss_advice' = IF ss_advice = Absent THEN None ELSE ss_advice
    /\ UNCHANGED advice_from
    /\ ss_resume_data' = IF ss_resume_data = AbsentData THEN NoneData ELSE ss_resume_data
    /\ a_pc' = IF Truthy(ss_advice') THEN "results" ELSE "qr_uploader"
    /\ UNCHANGED <<qr_file, resume_file, files, shown, calls, loc, client>>

\* main lines 203-234: the results view; the uploaders are not on the page,
\* so Streamlit drops the files they held
ResultsView ==
    /\ a_pc = "results"
    /\ qr_file' = NoFile
    /\ resume_file' = NoFile
    /\ UNCHANGED <<files, client>>
    /\ IF loc.event = "speak"
       THEN \E synth \in SynthOutcomes :
              LET clean_advice == clean_text_for_speech(ss_advice)
                  r == get_speech_audio_data(speech_config, clean_advice, <<"jenny">>,
                                             <<"medium">>, synth)
              IN  /\ calls' = Append(calls, [fn |-> "speech", path |-> NoPath,
                                             data |-> NoneData, text |-> clean_advice])
                  /\ EndRun("results", loc,
                            {"results", IF Falsy(r.ret) THEN "err_audio" ELSE "audio"})
                  /\ UNCHANGED <<ss_advice, advice_from, ss_resume_data>>
       ELSE IF loc.event = "start_over"
       THEN /\ ss_advice' = Absent
            /\ advice_from' = AbsentData
            /\ ss_resume_data' = AbsentData
            /\ StartRun("rerun")
       ELSE /\ EndRun("results", loc, {"results"})
            /\ UNCHANGED <<ss_advice, advice_from, ss_resume_data, calls>>

\* main lines 240-244
QrUploader ==
    /\ a_pc = "qr_uploader"
    /\ IF qr_file # NoFile
       THEN /\ a_pc' = "hfu_create"
            /\ loc' = [loc EXCEPT !.handler = "qr"]
       ELSE /\ a_pc' = "resume_uploader"
            /\ UNCHANGED loc
    /\ UNCHANGED <<ss_advice, advice_from, ss_resume_data, qr_file, resume_file, files, shown,
                   calls, client>>

\* main lines 246-250
ResumeUploader ==
    /\ a_pc = "resume_uploader"
    /\ IF resume_file # NoFile
       THEN /\ a_pc' = "hfu_create"
            /\ loc' = [loc EXCEPT !.handler = "resume", !.hfu_path = NoPath,
                                  !.exc = FALSE]
            /\ UNCHANGED shown
       ELSE EndRun("upload", loc, {})
    /\ UNCHANGED <<ss_advice, advice_from, ss_resume_data, qr_file, resume_file, files, calls,
                   client>>

\* handle_file_upload lines 118-124 up to the call of the handler; a failure
\* here runs the finally clause and ends the run
HfuCreate ==
    /\ a_pc = "hfu_create"
    /\ UNCHANGED <<ss_advice, advice_from, ss_resume_data, qr_file, resume_file, calls, client>>
    /\ LET path == IF loc.handler = "qr" THEN "tmp_qr" ELSE "tmp_resume"
       IN  \E out \in {"ok", "create_raises", "write_raises"} :
             IF out = "ok"
             THEN /\ files' = files \cup {path}
                  /\ loc' = [loc EXCEPT !.hfu_path = path, !.an_path = path]
                  /\ a_pc' = IF loc.handler = "qr" THEN "scan_call" ELSE "an_extract"
                  /\ UNCHANGED shown
             ELSE IF out = "create_raises"
             THEN /\ files' = hfu_cleanup(files, NoPath, TRUE)
                  /\ EndRun("upload", [loc EXCEPT !.exc = TRUE], {"exception"})
             ELSE /\ files' = hfu_cleanup(files \cup {path}, path, TRUE)
                  /\ EndRun("upload", [loc EXCEPT !.hfu_path = path, !.exc = TRUE],
                            {"exception"})

\* process_qr line 134: qr_scanner.scan_qr on the temporary image, whose
\* suffix is one of QR_FILE_TYPES
ScanCall ==
    /\ a_pc = "scan_call"
    /\ s_pc = "idle"
    /\ s_pc' = "start"
    /\ s_exists' = (loc.hfu_path \in files)
    /\ s_ext' = ".png"
    /\ s_enhance' = TRUE
    /\ s_open' = "not_called"
    /\ s_i' = 1
    /\ UNCHANGED <<s_log, s_result>>
    /\ a_pc' = "scanning"
    /\ UNCHANGED <<ss_advice, advice_from, ss_resume_data, qr_file, resume_file, files, shown,
                   calls, loc, client>>

ShowsAsFailure(text) == Falsy(text) \/ Contains(Lower(text), "error")

\* process_qr lines 134-141 and 162-163
ScanReturn ==
    /\ a_pc = "scanning"
    /\ s_pc = "done"
    /\ s_pc' = "idle"
    /\ s_exists' = FALSE
    /\ s_log' = <<>>
    /\ s_result' = create_error_response(None)
    /\ s_i' = 1
    /\ s_open' = "not_called"
    /\ UNCHANGED <<s_ext, s_enhance>>
    /\ UNCHANGED <<ss_advice, advice_from, ss_resume_data, qr_file, resume_file, files, calls,
                   client>>
    /\ LET qr_content == scan_qr(s_result)
           locals == [loc EXCEPT !.qr_content = qr_content, !.scanned = TRUE,
                                 !.scan_result = s_result]
       IN  /\ loc' = locals
           /\ IF ShowsAsFailure(qr_content)
              THEN /\ shown' = shown \cup {"err_decode"}
                   /\ a_pc' = "hfu_finally"
              ELSE IF StartsWith(qr_content, "http://") \/ StartsWith(qr_content, "https://")
              THEN /\ shown' = shown \cup {"info_decoded"}
                   /\ a_pc' = "download"
              ELSE /\ shown' = shown \cup {"info_decoded", "warn_not_url"}
                   /\ a_pc' = "hfu_finally"

\* process_qr lines 142-161 without the call of analyze_resume: the download
\* into a temporary PDF; a failure runs the except and finally clauses
Download ==
    /\ a_pc = "download"
    /\ UNCHANGED <<ss_advice, advice_from, ss_resume_data, qr_file, resume_file, client>>
    /\ calls' = Append(calls, [fn |-> "download", path |-> NoPath, data |-> NoneData,
                               text |-> loc.qr_content])
    /\ \E out \in {"ok", "get_raises", "chunk_raises", "tmpfile_raises", "write_raises"} :
         IF out = "ok"
         THEN /\ files' = files \cup {"tmp_pdf"}
              /\ loc' = [loc EXCEPT !.pdf_path = "tmp_pdf", !.an_path = "tmp_pdf"]
              /\ a_pc' = "an_extract"
              /\ UNCHANGED shown
         ELSE IF out = "get_raises"
         THEN /\ files' = dl_cleanup(files, NoPath, TRUE)
              /\ shown' = shown \cup {"err_download"}
              /\ a_pc' = "hfu_finally"
              /\ UNCHANGED loc
         ELSE IF out = "chunk_raises"
         THEN /\ files' = dl_cleanup(files \cup {"tmp_pdf"}, "tmp_pdf", TRUE)
              /\ shown' = shown \cup {"err_download"}
              /\ a_pc' = "hfu_finally"
              /\ loc' = [loc EXCEPT !.pdf_path = "tmp_pdf"]
         ELSE IF out = "tmpfile_raises"
         THEN /\ files' = dl_cleanup(files, NoPath, TRUE)
              /\ a_pc' = "hfu_finally"
              /\ loc' = [loc EXCEPT !.exc = TRUE]
              /\ UNCHANGED shown
         ELSE /\ files' = dl_cleanup(files \cup {"tmp_pdf"}, "tmp_pdf", TRUE)
              /\ a_pc' = "hfu_finally"
              /\ loc' = [loc EXCEPT !.pdf_path = "tmp_pdf", !.exc = TRUE]
              /\ UNCHANGED shown

\* the content of the file at a temporary path
ContentOf(path) == IF path = "tmp_pdf" THEN "web" ELSE resume_file

AnalyzeReturn == IF loc.handler = "qr" THEN "dl_finally" ELSE "hfu_finally"

\* what extract_resume_data_full does: a dictionary of nine keys, or raises
ExtractOutcomes == {"ok", "raises"}

AfterExtractRaised_advise_anyway(data) ==
    /\ a_pc' = "an_advice"
    /\ loc' = [loc EXCEPT !.an_data = data]
    /\ UNCHANGED <<shown, ss_resume_data>>

\* analyze_resume lines 111-112 for an exception of the extraction
AfterExtractRaised(data) ==
    /\ a_pc' = AnalyzeReturn
    /\ shown' = shown \cup {"err_analysis"}
    /\ UNCHANGED <<loc, ss_resume_data>>

AnExtract_not_storing ==
    /\ a_pc = "an_extract"
    /\ UNCHANGED <<ss_advice, advice_from, ss_resume_data, qr_file, resume_file, files,
                   client>>
    /\ \E out \in ExtractOutcomes :
         LET resume_data == IF out = "ok" THEN ResumeData(ContentOf(loc.an_path))
                            ELSE NoneData
         IN  /\ calls' = Append(calls, [fn |-> "extract", path |-> loc.an_path,
                                        data |-> resume_data, text |-> None])
             /\ loc' = [loc EXCEPT !.an_data = resume_data]
             /\ a_pc' = IF out = "ok" THEN "an_advice" ELSE AnalyzeReturn
             /\ shown' = IF out = "ok" THEN shown ELSE shown \cup {"err_analysis"}

\* analyze_resume lines 95-102
AnExtract ==
    /\ a_pc = "an_extract"
    /\ UNCHANGED <<ss_advice, advice_from, qr_file, resume_file, files, client>>
    /\ \E out \in ExtractOutcomes :
         LET resume_data == IF out = "ok" THEN ResumeData(ContentOf(loc.an_path))
                            ELSE NoneData
         IN  /\ calls' = Append(calls, [fn |-> "extract", path |-> loc.an_path,
                                        data |-> resume_data, text |-> None])
             /\ IF out = "raises"
                THEN AfterExtractRaised(resume_data)
                ELSE IF DataFalsy(resume_data)
                THEN /\ a_pc' = AnalyzeReturn
                     /\ shown' = shown \cup {"err_extract"}
                     /\ UNCHANGED <<loc, ss_resume_data>>
                ELSE /\ ss_resume_data' = resume_data
                     /\ loc' = [loc EXCEPT !.an_data = resume_data]
                     /\ a_pc' = "an_advice"
                     /\ UNCHANGED shown

\* analyze_resume lines 104-112
AnAdvice ==
    /\ a_pc = "an_advice"
    /\ UNCHANGED <<ss_resume_data, qr_file, resume_file, files, loc, client>>
    /\ \E out \in AdviceOutcomes :
         LET advice == get_career_advice(client, loc.an_data, out)
         IN  /\ calls' = Append(calls, [fn |-> "advice", path |-> loc.an_path,
                                        data |-> loc.an_data, text |-> advice])
             /\ IF ShowsAsFailure(advice)
                THEN /\ shown' = shown \cup {"err_advice"}
                     /\ UNCHANGED <<ss_advice, advice_from>>
                ELSE /\ ss_advice' = advice
                     /\ advice_from' = loc.an_data
                     /\ UNCHANGED shown
    /\ a_pc' = AnalyzeReturn

\* process_qr lines 158-161 after analyze_resume returned
DlFinally ==
    /\ a_pc = "dl_finally"
    /\ files' = dl_cleanup(files, loc.pdf_path, FALSE)
    /\ a_pc' = "hfu_finally"
    /\ UNCHANGED <<ss_advice, advice_from, ss_resume_data, qr_file, resume_file, shown, calls,
                   loc, client>>

\* handle_file_upload lines 125-127 after the handler returned or raised
HfuFinally ==
    /\ a_pc = "hfu_finally"
    /\ files' = hfu_cleanup(files, loc.hfu_path, loc.exc)
    /\ UNCHANGED <<ss_advice, advice_from, ss_resume_data, qr_file, resume_file, calls, client>>
    /\ IF loc.exc
       THEN EndRun("upload", loc, {"exception"})
       ELSE IF loc.handler = "qr"
       THEN /\ a_pc' = "resume_uploader"
            /\ UNCHANGED <<loc, shown>>
       ELSE EndRun("upload", loc, {})


(***************************************************************************)
(* azure_resume_parser.py                                                  *)
(***************************************************************************)
\* the atoms that hold a word as a substring
AtomContains(a, w) ==
    \/ a = w
    \/ <<a, w>> \in {<<"skills", "skill">>, <<"projects", "project">>,
                     <<"certifications", "certification">>,
                     <<"username", "name">>, <<"e-mail", "mail">>}

WordIn(w, s) == \E i \in DOMAIN s : AtomContains(s[i], w)

AnyWordIn(words, s) == \E w \in words : WordIn(w, s)

EmailAtoms == {"a@b.co"}
PhoneAtoms == {"+1234567890"}

RECURSIVE FirstAtomIn(_, _)
FirstAtomIn(s, atoms) ==
    IF s = <<>> THEN None
    ELSE IF Head(s) \in atoms THEN <<Head(s)>>
    ELSE FirstAtomIn(Tail(s), atoms)

\* extract_email, extract_phone: the first match of the pattern, or None
extract_email(text) == FirstAtomIn(text, EmailAtoms)
extract_phone(text) == FirstAtomIn(text, PhoneAtoms)

\* " ".join(p.content for p in paragraphs)
RECURSIVE JoinParagraphs(_)
JoinParagraphs(ps) ==
    IF ps = <<>> THEN <<>>
    ELSE IF Len(ps) = 1 THEN ps[1]
    ELSE ps[1] \o <<" ">> \o JoinParagraphs(Tail(ps))

EmptyResume ==
    [name |-> None, email |-> None, phone |-> None, skills |-> {}, projects |-> {},
     education |-> {}, experience |-> {}, certifications |-> {}, others |-> {}]

kv_step_overwriting(data, kv) ==
    IF kv.key = None \/ kv.value = None THEN data
    ELSE LET key == Lower(kv.key)
         IN  IF WordIn("name", key) THEN [data EXCEPT !.name = kv.value]
             ELSE IF WordIn("email", key) THEN [data EXCEPT !.email = kv.value]
             ELSE IF WordIn("phone", key) THEN [data EXCEPT !.phone = kv.value]
             ELSE data

\* lines 57-62: one key-value pair
kv_step(data, kv) ==
    IF kv.key = None \/ kv.value = None THEN data
    ELSE LET key == Lower(kv.key)
         IN  IF WordIn("name", key) /\ Falsy(data.name)
             THEN [data EXCEPT !.name = kv.value]
             ELSE IF WordIn("email", key) /\ Falsy(data.email)
             THEN [data EXCEPT !.email = kv.value]
             ELSE IF WordIn("phone", key) /\ Falsy(data.phone)
             THEN [data EXCEPT !.phone = kv.value]
             ELSE data

\* lines 65-68
regex_backfill(data, full_text) ==
    [data EXCEPT !.email = IF Falsy(@) THEN extract_email(full_text) ELSE @,
                 !.phone = IF Falsy(@) THEN extract_phone(full_text) ELSE @]

RECURSIVE FirstPerson(_)
FirstPerson(entities) ==
    IF entities = <<>> THEN None
    ELSE IF Head(entities).category = "Person" THEN Head(entities).text
    ELSE FirstPerson(Tail(entities))

\* lines 73-78: the one document of the response
ner_backfill(data, doc) ==
    IF doc.is_error \/ FirstPerson(doc.entities) = None THEN data
    ELSE [data EXCEPT !.name = FirstPerson(doc.entities)]

SkillWords_without_skill == {"technologies", "tools"}

SkillWords == {"skill", "technologies", "tools"}
ProjectWords == {"project", "developed", "built", "designed"}
EducationWords == {"education", "bachelor", "master", "degree", "university", "college"}
ExperienceWords == {"experience", "worked", "internship", "employment", "job"}
CertificationWords == {"certification", "certificate"}
CategoryWordsOfOthers == {"skill", "project", "education", "experience", "certification"}

\* lines 82-106: the buckets one paragraph is appended to
BucketsOf(para) ==
    LET content == Lower(para)
    IN  (IF AnyWordIn(SkillWords, content) THEN {"skills"} ELSE {})
        \cup (IF AnyWordIn(ProjectWords, content) THEN {"projects"} ELSE {})
        \cup (IF AnyWordIn(EducationWords, content) THEN {"education"} ELSE {})
        \cup (IF AnyWordIn(ExperienceWords, content) THEN {"experience"} ELSE {})
        \cup (IF AnyWordIn(CertificationWords, content) THEN {"certifications"} ELSE {})
        \cup (IF ~AnyWordIn(CategoryWordsOfOthers, content) THEN {"others"} ELSE {})

BucketNames == {"skills", "projects", "education", "experience", "certifications",
                "others"}

\* lines 81-110: a bucket after the loop and list(set(x.strip() ...))
Bucket(paragraphs, b) ==
    {Strip(paragraphs[i]) : i \in {j \in DOMAIN paragraphs : b \in BucketsOf(paragraphs[j])}}

triage(data, paragraphs) ==
    [data EXCEPT !.skills = Bucket(paragraphs, "skills"),
                 !.projects = Bucket(paragraphs, "projects"),
                 !.education = Bucket(paragraphs, "education"),
                 !.experience = Bucket(paragraphs, "experience"),
                 !.certifications = Bucket(paragraphs, "certifications"),
                 !.others = Bucket(paragraphs, "others")]

NothingDone == [regex_email |-> FALSE, regex_phone |-> FALSE, ner |-> FALSE]

\* lines 56-62, one iteration
ExKvPair ==
    /\ ex_pc = "kv"
    /\ ex_i <= Len(ex_pairs)
    /\ ex_prev' = ex_data
    /\ ex_data' = kv_step(ex_data, ex_pairs[ex_i])
    /\ ex_i' = ex_i + 1
    /\ UNCHANGED <<ex_pc, ex_paragraphs, ex_pairs, ex_ner, ex_did>>

\* lines 64-68
ExRegex ==
    /\ ex_pc = "kv"
    /\ ex_i > Len(ex_pairs)
    /\ ex_prev' = ex_data
    /\ ex_data' = regex_backfill(ex_data, JoinParagraphs(ex_paragraphs))
    /\ ex_did' = [ex_did EXCEPT !.regex_email = Falsy(ex_data.email),
                                !.regex_phone = Falsy(ex_data.phone)]
    /\ ex_pc' = "ner"
    /\ UNCHANGED <<ex_paragraphs, ex_pairs, ex_ner, ex_i>>

\* lines 70-78; recognize_entities may raise, which ends the function
ExNer ==
    /\ ex_pc = "ner"
    /\ UNCHANGED <<ex_paragraphs, ex_pairs, ex_ner, ex_i, ex_prev>>
    /\ IF Falsy(ex_data.name)
       THEN /\ ex_did' = [ex_did EXCEPT !.ner = TRUE]
            /\ IF ex_ner.raises
               THEN /\ ex_pc' = "raised"
                    /\ UNCHANGED ex_data
               ELSE /\ ex_data' = ner_backfill(ex_data, ex_ner)
                    /\ ex_pc' = "triage"
       ELSE /\ ex_pc' = "triage"
            /\ UNCHANGED <<ex_data, ex_did>>

\* lines 80-112
ExTriage ==
    /\ ex_pc = "triage"
    /\ ex_data' = triage(ex_data, ex_paragraphs)
    /\ ex_pc' = "done"
    /\ UNCHANGED <<ex_paragraphs, ex_pairs, ex_ner, ex_i, ex_prev, ex_did>>

\* the key-value pairs a document can hold: a key or a value may be missing,
\* a value may be empty
KeyContents == {<<"Name">>, <<"email">>, <<"phone">>, <<"Name", "email">>,
                <<"email", "phone">>, <<"address">>}
ValueContents == {<<>>, <<"v1">>, <<"v2">>}

KvPairs ==
    {[key |-> k, value |-> v] : k \in KeyContents, v \in ValueContents \cup {None}}
        \cup {[key |-> None, value |-> <<"v1">>]}

NerResponses ==
    {[raises |-> TRUE, is_error |-> FALSE, entities |-> <<>>],
     [raises |-> FALSE, is_error |-> TRUE, entities |-> <<>>],
     [raises |-> FALSE, is_error |-> FALSE, entities |-> <<>>],
     [raises |-> FALSE, is_error |-> FALSE,
      entities |-> <<[category |-> "Organization", text |-> <<"Acme">>],
                     [category |-> "Person", text |-> <<"Ann">>],
                     [category |-> "Person", text |-> <<"Bob">>]>>]}

\* the paragraphs a document can hold: every keyword of every list alone,
\* a plural, a capital, surrounding whitespace, two keywords, no keyword,
\* an address and a number the patterns match
Paragraphs ==
    {<<w>> : w \in SkillWords \cup ProjectWords \cup EducationWords
                     \cup ExperienceWords \cup CertificationWords}
        \cup {<<"skills">>, <<"Skill">>, <<" ", "tools", " ">>, <<"tools", " ">>,
              <<"built", "certificate">>, <<"hello">>, <<"hello", " ">>,
              <<"mail", "a@b.co">>, <<"call", "+1234567890">>}

(***************************************************************************)
(* Specifications                                                          *)
(***************************************************************************)
TypeIdle ==
    /\ t_pc = "idle"
    /\ t_data = <<>>
    /\ t_raises = FALSE
    /\ t_type = "none"

SpeechIdle ==
    /\ sp_pc = "idle"
    /\ speech_key = None
    /\ speech_region = None
    /\ sp_call = NoCall
    /\ sp_ret = None
    /\ sp_contacted = FALSE

AppIdle ==
    /\ a_pc = "off"
    /\ ss_advice = Absent
    /\ advice_from = AbsentData
    /\ ss_resume_data = AbsentData
    /\ qr_file = NoFile
    /\ resume_file = NoFile
    /\ files = {}
    /\ shown = {}
    /\ calls = <<>>
    /\ loc = FreshLocals("none", "load")
    /\ client = FALSE

ExtractIdle ==
    /\ ex_pc = "idle"
    /\ ex_paragraphs = <<>>
    /\ ex_pairs = <<>>
    /\ ex_ner = [raises |-> FALSE, is_error |-> FALSE, entities |-> <<>>]
    /\ ex_i = 1
    /\ ex_data = EmptyResume
    /\ ex_prev = EmptyResume
    /\ ex_did = NothingDone

AdviceIdle == ad_log = <<>>

\* QRScanner.scan_qr on any file, supported or not, with either flag
InitScan ==
    /\ s_pc = "start"
    /\ s_exists \in BOOLEAN
    /\ s_ext \in {".png", ".txt"}
    /\ s_enhance \in BOOLEAN
    /\ s_open = "not_called"
    /\ s_i = 1
    /\ s_log = <<>>
    /\ s_result = create_error_response(None)
    /\ TypeIdle
    /\ SpeechIdle
    /\ speech_config = NoConfig
    /\ AppIdle
    /\ ExtractIdle
    /\ AdviceIdle

NextScan ==
    \/ ScanValidate /\ UNCHANGED <<typeVars, speechVars, appVars, extractVars, adviceVars>>
    \/ PilAttempt /\ UNCHANGED <<typeVars, speechVars, appVars, extractVars, adviceVars>>
    \/ ScanCvPrepare /\ UNCHANGED <<typeVars, speechVars, appVars, extractVars, adviceVars>>
    \/ CvAttempt /\ UNCHANGED <<typeVars, speechVars, appVars, extractVars, adviceVars>>

SpecScan == InitScan /\ [][NextScan]_vars

\* _detect_qr_type on every string of at most MaxDataLen atoms
InitType ==
    /\ t_pc = "start"
    /\ t_data \in TypeInputs
    /\ t_raises \in BOOLEAN
    /\ t_type = "none"
    /\ ScanIdle
    /\ SpeechIdle
    /\ speech_config = NoConfig
    /\ AppIdle
    /\ ExtractIdle
    /\ AdviceIdle

NextType == DetectType /\ UNCHANGED <<scanVars, speechVars, appVars, extractVars, adviceVars>>

SpecType == InitType /\ [][NextType]_vars

\* azure_speaker at import, for every setting of the two environment
\* variables, then one call of get_speech_audio_data
InitSpeech ==
    /\ sp_pc = "import"
    /\ speech_key \in EnvValues
    /\ speech_region \in EnvValues
    /\ speech_config = NoConfig
    /\ sp_call = NoCall
    /\ sp_ret = None
    /\ sp_contacted = FALSE
    /\ ScanIdle
    /\ TypeIdle
    /\ AppIdle
    /\ ExtractIdle
    /\ AdviceIdle

NextSpeech ==
    \/ SpeechImport /\ UNCHANGED <<scanVars, typeVars, appVars, extractVars, adviceVars>>
    \/ GetSpeechAudioData /\ UNCHANGED <<scanVars, typeVars, appVars, extractVars, adviceVars>>

SpecSpeech == InitSpeech /\ [][NextSpeech]_vars

\* the app: a first run of the script on page load, with the modules
\* imported under any configuration
InitApp ==
    /\ a_pc = "main"
    /\ ss_advice = Absent
    /\ advice_from = AbsentData
    /\ ss_resume_data = AbsentData
    /\ qr_file = NoFile
    /\ resume_file = NoFile
    /\ files = {}
    /\ shown = {}
    /\ calls = <<>>
    /\ loc = FreshLocals("none", "load")
    /\ client \in BOOLEAN
    /\ sp_pc = "ready"
    /\ speech_key \in {None, <<"value">>}
    /\ speech_region = <<"value">>
    /\ speech_config = initialize_config(speech_key, speech_region, "ok")
    /\ sp_call = NoCall
    /\ sp_ret = None
    /\ sp_contacted = FALSE
    /\ ScanIdle
    /\ TypeIdle
    /\ ExtractIdle
    /\ AdviceIdle

NextApp ==
    \/ UserEvent /\ UNCHANGED <<scanVars, typeVars, speechVars, extractVars, adviceVars>>
    \/ Main /\ UNCHANGED <<scanVars, typeVars, speechVars, extractVars, adviceVars>>
    \/ ResultsView /\ UNCHANGED <<scanVars, typeVars, speechVars, extractVars, adviceVars>>
    \/ QrUploader /\ UNCHANGED <<scanVars, typeVars, speechVars, extractVars, adviceVars>>
    \/ ResumeUploader /\ UNCHANGED <<scanVars, typeVars, speechVars, extractVars, adviceVars>>
    \/ HfuCreate /\ UNCHANGED <<scanVars, typeVars, speechVars, extractVars, adviceVars>>
    \/ ScanCall /\ UNCHANGED <<typeVars, speechVars, extractVars, adviceVars>>
    \/ ScanValidate /\ UNCHANGED <<typeVars, speechVars, appVars, extractVars, adviceVars>>
    \/ PilAttempt /\ UNCHANGED <<typeVars, speechVars, appVars, extractVars, adviceVars>>
    \/ ScanCvPrepare /\ UNCHANGED <<typeVars, speechVars, appVars, extractVars, adviceVars>>
    \/ CvAttempt /\ UNCHANGED <<typeVars, speechVars, appVars, extractVars, adviceVars>>
    \/ ScanReturn /\ UNCHANGED <<typeVars, speechVars, extractVars, adviceVars>>
    \/ Download /\ UNCHANGED <<scanVars, typeVars, speechVars, extractVars, adviceVars>>
    \/ AnExtract /\ UNCHANGED <<scanVars, typeVars, speechVars, extractVars, adviceVars>>
    \/ AnAdvice /\ UNCHANGED <<scanVars, typeVars, speechVars, extractVars, adviceVars>>
    \/ DlFinally /\ UNCHANGED <<scanVars, typeVars, speechVars, extractVars, adviceVars>>
    \/ HfuFinally /\ UNCHANGED <<scanVars, typeVars, speechVars, extractVars, adviceVars>>

SpecApp == InitApp /\ [][NextApp]_vars

ExtractStart ==
    /\ ex_pc = "kv"
    /\ ex_i = 1
    /\ ex_data = EmptyResume
    /\ ex_prev = EmptyResume
    /\ ex_did = NothingDone
    /\ ScanIdle
    /\ TypeIdle
    /\ SpeechIdle
    /\ speech_config = NoConfig
    /\ AppIdle
    /\ AdviceIdle

NextExtract ==
    \/ ExKvPair /\ UNCHANGED <<scanVars, typeVars, speechVars, appVars, adviceVars>>
    \/ ExRegex /\ UNCHANGED <<scanVars, typeVars, speechVars, appVars, adviceVars>>
    \/ ExNer /\ UNCHANGED <<scanVars, typeVars, speechVars, appVars, adviceVars>>
    \/ ExTriage /\ UNCHANGED <<scanVars, typeVars, speechVars, appVars, adviceVars>>

\* extract_resume_data_full on every list of at most MaxPairs key-value
\* pairs, with every entity-recognition response
InitExtractKv ==
    /\ ExtractStart
    /\ ex_pairs \in SeqsUpTo(KvPairs, MaxPairs)
    /\ ex_ner \in NerResponses
    /\ ex_paragraphs \in {<<>>, << <<"hello">>, <<"mail", "a@b.co">>,
                                  <<"call", "+1234567890">> >>}

SpecExtractKv == InitExtractKv /\ [][NextExtract]_vars

\* extract_resume_data_full on every list of at most MaxParas paragraphs
InitTriage ==
    /\ ExtractStart
    /\ ex_paragraphs \in SeqsUpTo(Paragraphs, MaxParas)
    /\ ex_pairs \in {<<>>, << [key |-> <<"Name">>, value |-> <<"v1">>] >>}
    /\ ex_ner = [raises |-> FALSE, is_error |-> FALSE, entities |-> <<>>]

SpecTriage == InitTriage /\ [][NextExtract]_vars

\* azure_ai_advisor imported with or without a client (initialize_client
\* returned None), then calls of get_career_advice; the app is not running
InitAdvice ==
    /\ ad_log = <<>>
    /\ client \in BOOLEAN
    /\ a_pc = "off"
    /\ ss_advice = Absent
    /\ advice_from = AbsentData
    /\ ss_resume_data = AbsentData
    /\ qr_file = NoFile
    /\ resume_file = NoFile
    /\ files = {}
    /\ shown = {}
    /\ calls = <<>>
    /\ loc = FreshLocals("none", "load")
    /\ ScanIdle
    /\ TypeIdle
    /\ SpeechIdle
    /\ speech_config = NoConfig
    /\ ExtractIdle

NextAdvice ==
    GetCareerAdvice
        /\ UNCHANGED <<scanVars, typeVars, speechVars, appVars, extractVars>>

SpecAdvice == InitAdvice /\ [][NextAdvice]_vars

(***************************************************************************)
(* Claims about QRScanner.scan_qr (SpecScan)                               *)
(***************************************************************************)
AttemptOrder ==
    <<"original", "enhanced", "grayscale", "high_contrast",
      "opencv_original", "opencv_gaussian_blur", "opencv_median_blur",
      "opencv_bilateral_filter", "opencv_adaptive_threshold">>

AllAttemptsFailed ==
    /\ s_log # <<>>
    /\ \A i \in DOMAIN s_log : s_log[i].outcome # "ok"

\* C1: the attempts are made in the fixed order original, enhanced, grayscale,
\* high_contrast, then the five OpenCV variants; a successful attempt is the
\* last one made, and the returned result carries its data and its name; a
\* successful result is always the one of the last attempt made.
C1_FirstSuccessWins ==
    /\ Len(s_log) <= Len(AttemptOrder)
    /\ \A i \in DOMAIN s_log : s_log[i].name = AttemptOrder[i]
    /\ \A i \in DOMAIN s_log :
         s_log[i].outcome = "ok" =>
            /\ i = Len(s_log)
            /\ s_pc = "done"
            /\ s_result.success
            /\ s_result.data = s_log[i].data
            /\ s_result.processing_method = s_log[i].name
    /\ (s_pc = "done" /\ s_result.success) =>
            /\ s_log # <<>>
            /\ s_log[Len(s_log)].outcome = "ok"

\* an OpenCV variant decodes after the four PIL variants and the first
\* OpenCV variant failed, one of them by raising
C1_Witness ==
    /\ s_pc = "done"
    /\ s_result.success
    /\ Len(s_log) = 6
    /\ s_result.processing_method = "opencv_gaussian_blur"
    /\ \E i \in DOMAIN s_log : s_log[i].outcome = "raise"

\* C3: scan_qr never gets stuck, and once the cascade has run with every
\* attempt failing (by returning failure or by raising) the result is the
\* error response 'No QR code found in image' with data None and type None.
C3_AllFailNoQR ==
    /\ s_pc \notin {"done", "idle"} => ENABLED NextScan
    /\ (s_pc = "done" /\ AllAttemptsFailed) =>
            s_result = [success |-> FALSE, error |-> MsgNoQR, data |-> None, type |-> None]

\* all nine attempts were made and failed, some by raising, some by returning
C3_Witness ==
    /\ s_pc = "done"
    /\ Len(s_log) = 9
    /\ AllAttemptsFailed
    /\ \E i \in DOMAIN s_log : s_log[i].outcome = "raise"
    /\ \E i \in DOMAIN s_log : s_log[i].outcome = "fail"
    /\ s_result.error = MsgNoQR

(***************************************************************************)
(* Claims about QRScanner._detect_qr_type (SpecType)                       *)
(***************************************************************************)
\* the rule order the specification states
RefType(data) ==
    IF StartsWith(data, "mailto:") THEN "email"
    ELSE IF StartsWith(data, "tel:") THEN "phone"
    ELSE IF StartsWith(data, "wifi:") THEN "wifi"
    ELSE IF StartsWith(data, "begin:vcard") THEN "vcard"
    ELSE IF StartsWith(data, "geo:") THEN "location"
    ELSE IF IsUrl(data) THEN "url"
    ELSE "text"

IsEmailShape(d) == StartsWith(d, "mailto:") \/ Contains(d, "@")
IsPhoneShape(d) == StartsWith(d, "tel:") \/ StartsWith(d, "phone:")

TextIsBlank(text) == text = None \/ \A i \in DOMAIN text : text[i] = " "

\* C9: get_speech_audio_data returns audio bytes or None; it returns None
\* without contacting the service when the configuration was not initialised
\* (a key or region missing) or the text is empty or whitespace; it returns
\* None when the synthesis is cancelled or throws; it returns the audio only
\* when the synthesis completed.
C9_AudioOrNone ==
    /\ sp_pc \in {"ready", "returned"} =>
          ((Falsy(speech_key) \/ Falsy(speech_region)) => speech_config = NoConfig)
    /\ sp_pc = "returned" =>
          /\ sp_ret \in {None, Audio}
          /\ (speech_config = NoConfig \/ TextIsBlank(sp_call.text)) =>
                (sp_ret = None /\ ~sp_contacted)
          /\ sp_call.synth # "completed" => sp_ret = None
          /\ sp_ret = Audio =>
                (sp_call.synth = "completed" /\ sp_contacted /\ speech_config = Config)

\* a whitespace-only text with an initialised configuration: None, and the
\* service was not contacted
C9_Witness ==
    /\ sp_pc = "returned"
    /\ speech_config = Config
    /\ sp_call.text = <<" ", " ">>
    /\ sp_call.voice = <<"jenny">>
    /\ sp_call.synth = "completed"
    /\ sp_ret = None
    /\ ~sp_contacted

(***************************************************************************)
(* Claims about app.py (SpecApp)                                           *)
(***************************************************************************)
\* C4: in every run get_career_advice is called only right after
\* extract_resume_data_full returned non-empty data for the same file, with
\* that data, and get_speech_audio_data is called only while
\* st.session_state.advice holds advice.
C4_PipelineOrder ==
    \A i \in DOMAIN calls :
        /\ calls[i].fn = "advice" =>
              /\ i > 1
              /\ calls[i - 1].fn = "extract"
              /\ calls[i - 1].path = calls[i].path
              /\ ~DataFalsy(calls[i - 1].data)
              /\ calls[i - 1].data = calls[i].data
        /\ calls[i].fn = "speech" =>
              /\ Truthy(ss_advice)
              /\ calls[i].text = clean_text_for_speech(ss_advice)

\* a run in which the QR download and then the uploaded PDF were both
\* analysed, each advice call following its own extraction
C4_Witness ==
    /\ Len(calls) = 5
    /\ calls[3].fn = "advice"
    /\ calls[5].fn = "advice"
    /\ calls[5].path = "tmp_resume"

\* the speech call is made from the results view
C4_WitnessSpeech ==
    /\ a_pc = "idle"
    /\ \E i \in DOMAIN calls : calls[i].fn = "speech"
    /\ "audio" \in shown

InHandleFileUpload ==
    a_pc \in {"scan_call", "scanning", "download", "an_extract", "an_advice",
              "dl_finally", "hfu_finally"}

\* C5: whenever handle_file_upload has finished, by a return or by an
\* exception, the temporary file of the upload no longer exists.
C5_UploadTempFileRemoved ==
    ~InHandleFileUpload => files \cap {"tmp_qr", "tmp_resume"} = {}

\* the handler raised after the temporary file was created, and the run ended
C5_Witness ==
    /\ a_pc = "idle"
    /\ loc.exc
    /\ loc.hfu_path = "tmp_qr"
    /\ loc.scanned
    /\ "exception" \in shown
    /\ files = {}

InDownloadBranch == a_pc \in {"an_extract", "an_advice", "dl_finally"}

\* C6: once process_qr has left the download branch (the download failed
\* part-way, the analysis failed, or all succeeded) the temporary PDF no
\* longer exists.
C6_DownloadedPdfRemoved ==
    ~InDownloadBranch => "tmp_pdf" \notin files

\* the download failed after the temporary PDF was created
C6_Witness ==
    /\ a_pc = "hfu_finally"
    /\ loc.pdf_path = "tmp_pdf"
    /\ "err_download" \in shown
    /\ "tmp_pdf" \notin files

\* the analysis of the downloaded PDF failed and the branch was left
C6_WitnessAnalysisFailed ==
    /\ a_pc = "hfu_finally"
    /\ loc.pdf_path = "tmp_pdf"
    /\ "err_analysis" \in shown
    /\ "tmp_pdf" \notin files

\* C10: whenever the scanner failed to decode the image, process_qr shows
\* 'Could not decode QR code' and stops: the scanner's return value is not
\* shown as decoded content and no download or analysis of a download follows.
C10_ScanFailureShown ==
    (loc.scanned /\ ~loc.scan_result.success) =>
        /\ "err_decode" \in shown
        /\ "info_decoded" \notin shown
        /\ a_pc # "download"
        /\ \A i \in DOMAIN calls : calls[i].fn # "download"

(***************************************************************************)
(* Claims about extract_resume_data_full (SpecExtractKv, SpecTriage)       *)
(***************************************************************************)
Fields == <<"name", "email", "phone">>

HasKeyAndValue(kv) == kv.key # None /\ kv.value # None

KvPassDone == ex_pc = "kv" /\ ex_i = Len(ex_pairs) + 1

\* the pairs with a key that holds the word of field f and a non-empty value
PairsFor(f) ==
    {i \in DOMAIN ex_pairs :
        /\ HasKeyAndValue(ex_pairs[i])
        /\ ~Falsy(ex_pairs[i].value)
        /\ WordIn(f, Lower(ex_pairs[i].key))}

Least(S) == CHOOSE i \in S : \A j \in S : i <= j

\* C7 as stated, for the key-value pass: each field is set by the first pair
\* whose key contains the field's word, and later pairs do not overwrite it.
C7_AsStated ==
    KvPassDone =>
        \A n \in DOMAIN Fields :
            PairsFor(Fields[n]) # {} =>
                ex_data[Fields[n]] = ex_pairs[Least(PairsFor(Fields[n]))].value

\* the field, if any, that a pair may set: the first of name, email, phone
\* whose word is in the key and which is still empty
Settable(kv, before) ==
    {n \in DOMAIN Fields :
        /\ HasKeyAndValue(kv)
        /\ WordIn(Fields[n], Lower(kv.key))
        /\ Falsy(before[Fields[n]])}

AfterBackfill == ex_pc \in {"ner", "triage", "done", "raised"}
AfterNer == ex_pc \in {"triage", "done", "raised"}

PersonIndexes == {i \in DOMAIN ex_ner.entities : ex_ner.entities[i].category = "Person"}

\* C7 amended: a pair with a key and a value sets at most one field, the
\* first of name, email, phone whose word is in the key and which is still
\* empty; a field that holds a non-empty value is never overwritten, by a
\* later pair or by the backfill; the email and phone patterns are applied
\* only when the field is empty after the key-value pass; entity recognition
\* is invoked only when the name is empty after it, and then the first
\* Person entity of a document without error becomes the name.
C7_KeyValuePriority ==
    /\ (ex_pc = "kv" /\ ex_i > 1) =>
          LET kv == ex_pairs[ex_i - 1]
              settable == Settable(kv, ex_prev)
              changed == {n \in DOMAIN Fields : ex_data[Fields[n]] # ex_prev[Fields[n]]}
          IN  /\ \A n \in DOMAIN Fields :
                    ~Falsy(ex_prev[Fields[n]]) => n \notin changed
              /\ Cardinality(changed) <= 1
              /\ changed \subseteq settable
              /\ \A n \in changed : n = Least(settable)
              /\ settable # {} => ex_data[Fields[Least(settable)]] = kv.value
    /\ AfterBackfill =>
          /\ ex_did.regex_email <=> Falsy(ex_prev.email)
          /\ ex_did.regex_phone <=> Falsy(ex_prev.phone)
          /\ ~Falsy(ex_prev.email) => ex_data.email = ex_prev.email
          /\ ~Falsy(ex_prev.phone) => ex_data.phone = ex_prev.phone
          /\ ex_did.regex_email => ex_data.email = extract_email(JoinParagraphs(ex_paragraphs))
          /\ ex_did.regex_phone => ex_data.phone = extract_phone(JoinParagraphs(ex_paragraphs))
    /\ AfterNer =>
          /\ ex_did.ner <=> Falsy(ex_prev.name)
          /\ ~Falsy(ex_prev.name) => ex_data.name = ex_prev.name
          /\ (ex_did.ner /\ ex_pc # "raised" /\ ~ex_ner.is_error /\ PersonIndexes # {}) =>
                ex_data.name = ex_ner.entities[Least(PersonIndexes)].text

\* a key that holds two field words sets only the name; the email comes from
\* the next pair, the phone from the pattern, and no entity is looked up
C7_Witness ==
    /\ ex_pc = "done"
    /\ ex_pairs = << [key |-> <<"Name", "email">>, value |-> <<"v1">>],
                     [key |-> <<"email">>, value |-> <<"v2">>] >>
    /\ ex_data.name = <<"v1">>
    /\ ex_data.email = <<"v2">>
    /\ ex_data.phone = <<"+1234567890">>
    /\ ex_did = [regex_email |-> FALSE, regex_phone |-> TRUE, ner |-> FALSE]

\* the name comes from the first Person entity when no pair gave one
C7_WitnessNer ==
    /\ ex_pc = "done"
    /\ ex_did.ner
    /\ ex_data.name = <<"Ann">>

\* C8: every paragraph's stripped content is in at least one of the buckets
\* skills, projects, education, experience, certifications, others.
C8_NoParagraphLost ==
    ex_pc = "done" =>
        \A i \in DOMAIN ex_paragraphs :
            \E b \in BucketNames : Strip(ex_paragraphs[i]) \in ex_data[b]

\* a padded paragraph with a category word that is not one of the words the
\* others test looks for, and a paragraph without any keyword
C8_Witness ==
    /\ ex_pc = "done"
    /\ ex_paragraphs = << <<" ", "tools", " ">>, <<"hello">> >>
    /\ <<"tools">> \in ex_data.skills
    /\ <<"hello">> \in ex_data.others
    /\ ex_data.projects = {}

\* the texts get_career_advice returns for its three failure outcomes
AdviceFailureTexts == {MsgClientUnavailable, MsgNoResumeData, MsgAdviceError}

\* C11: whenever get_career_advice returns the text of one of its failure
\* outcomes (client not available, no resume data, exception of the
\* chat-completion call), analyze_resume shows "Could not generate career
\* advice" and leaves st.session_state.advice as it was; the stored advice
\* is always the content of a chat completion.
C11_AdviceOnlyOnSuccess ==
    /\ \A i \in DOMAIN calls :
          (calls[i].fn = "advice" /\ calls[i].text \in AdviceFailureTexts) =>
              /\ "err_advice" \in shown
              /\ ss_advice # calls[i].text
    /\ Truthy(ss_advice) => ss_advice \in AdviceTexts

\* C12: whenever st.session_state.advice holds advice, it is the result of
\* get_career_advice for the resume data st.session_state.resume_data holds,
\* at the end of every script run and whenever the results view is rendered.
C12_AdviceMatchesResumeData ==
    (a_pc \in {"idle", "results"} /\ Truthy(ss_advice)) => advice_from = ss_resume_data

\* C13: in every state after initialize_state has run, if
\* st.session_state.advice holds advice then st.session_state.resume_data
\* holds resume data (it is neither None nor deleted), so the results view
\* always has resume data to render.
C13_AdviceImpliesResumeData ==
    /\ Truthy(ss_advice) => ss_resume_data \notin {NoneData, AbsentData, EmptyData}
    /\ (a_pc = "results" \/ "results" \in shown) =>
          ss_resume_data \notin {NoneData, AbsentData, EmptyData}

\* the results view is on the page with the advice and the data of the
\* downloaded resume
C13_Witness ==
    /\ a_pc = "idle"
    /\ "results" \in shown
    /\ Truthy(ss_advice)
    /\ ss_resume_data = ResumeData("web")

\* the positions in this run's calls of the downloads and of the analyses of
\* the downloaded file
DownloadCalls == {i \in DOMAIN calls : calls[i].fn = "download"}
DownloadAnalyses == {i \in DOMAIN calls : calls[i].fn = "extract" /\ calls[i].path = "tmp_pdf"}

\* the scanner decoded the image and process_qr has its return value
DecodedInProcessQr == loc.handler = "qr" /\ loc.scanned /\ loc.scan_result.success

IsHttpUrl(content) == StartsWith(content, "http://") \/ StartsWith(content, "https://")

\* the branch of process_qr for one decoded content, as C14 describes it
ProcessQrBranch(content) ==
    IF IsHttpUrl(content)
    THEN /\ "warn_not_url" \notin shown
         /\ a_pc = "download" \/ DownloadCalls # {}
         /\ DownloadCalls # {} =>
               IF loc.an_path = "tmp_pdf"
               THEN a_pc = "an_extract" \/ DownloadAnalyses # {}
               ELSE /\ "err_download" \in shown \/ loc.exc
                    /\ DownloadAnalyses = {}
    ELSE /\ "warn_not_url" \in shown
         /\ a_pc # "download"
         /\ DownloadCalls = {}
         /\ DownloadAnalyses = {}

\* C14: for every image the scanner decodes, process_qr branches on the decoded
\* content alone: content that starts with http:// or https:// is downloaded
\* and, when the download succeeds, analyze_resume is called on the
\* downloaded file, while a failed download shows an error and no analysis
\* follows; any other content gets the warning and neither a download nor an
\* analysis.
C14_BranchOnDecodedContent ==
    DecodedInProcessQr => ProcessQrBranch(loc.scan_result.data)

\* the three outcomes of the checks scan_qr makes before it decodes
ValidationFailed ==
    ~s_exists \/ s_ext \notin supported_formats \/ s_open = "raises"

\* C15: a finished call of scan_qr on a missing file returns "Image file not
\* found", whatever the extension; else on an extension outside the supported
\* formats it returns "Unsupported image format"; else on a file Image.open
\* cannot open it returns "Error opening image". In the three cases no pyzbar
\* or OpenCV attempt was made, Image.open was called only in the third, and
\* the response has success False, data None and type None.
C15_ValidationPrecedence ==
    (s_pc = "done" /\ ValidationFailed) =>
        /\ s_result = create_error_response(
                          IF ~s_exists THEN MsgNotFound
                          ELSE IF s_ext \notin supported_formats THEN MsgUnsupported(s_ext)
                          ELSE MsgOpenError)
        /\ s_log = <<>>
        /\ (~s_exists \/ s_ext \notin supported_formats) => s_open = "not_called"
        /\ s_result.success = FALSE
        /\ s_result.data = None
        /\ s_result.type = None

\* a missing file with an unsupported extension: the missing file is reported
C15_Witness ==
    /\ s_pc = "done"
    /\ ~s_exists
    /\ s_ext = ".txt"
    /\ s_result.error = MsgNotFound

\* a supported file that exists and cannot be opened
C15_WitnessOpenError ==
    /\ s_pc = "done"
    /\ s_exists
    /\ s_ext = ".png"
    /\ s_open = "raises"
    /\ s_result.error = MsgOpenError

\* the five category buckets of the returned dictionary
CategoryBuckets == BucketNames \ {"others"}

\* C16: in the dictionary extract_resume_data_full returns, no paragraph is
\* both in "others" and in one of skills, projects, education, experience,
\* certifications.
C16_OthersDisjoint ==
    ex_pc = "done" =>
        \A b \in CategoryBuckets : ex_data.others \cap ex_data[b] = {}

\* C17: every call of get_career_advice returns a text (it does not raise).
\* Without a client it returns the not-available text, else with None or an
\* empty dictionary it returns the no-data text, and in both cases the
\* chat-completion service is not called; otherwise the service is called
\* once, and the call returns the error text when the service call raised
\* and the content of the first choice, as it came, when it did not.
C17_AdviceNeverRaises ==
    \A i \in DOMAIN ad_log :
        LET c == ad_log[i]
        IN  IF ~client
            THEN c.ret = MsgClientUnavailable /\ ~c.contacted
            ELSE IF c.data \in {NoneData, EmptyData}
            THEN c.ret = MsgNoResumeData /\ ~c.contacted
            ELSE /\ c.contacted
                 /\ c.out.kind \in {"raises", "ok"}
                 /\ c.out.kind = "raises" => c.ret = MsgAdviceError
                 /\ c.out.kind = "ok" => c.ret = c.out.content

\* one call without data and one whose completion came back, with a client
C17_Witness ==
    /\ client
    /\ Len(ad_log) = 2
    /\ ad_log[1].data = EmptyData
    /\ ad_log[1].ret = MsgNoResumeData
    /\ ad_log[2].contacted
    /\ ad_log[2].ret = <<"advice">>

\* a call without a client
C17_WitnessNoClient ==
    /\ ~client
    /\ Len(ad_log) = 1
    /\ ad_log[1].data = ResumeData("r1")
    /\ ad_log[1].ret = MsgClientUnavailable

====
